---- MODULE Spec2Model ----
(***************************************************************************)
(* ZONEMD zone digests (zonemd.py): add_zonemd, calculate_zonemd,          *)
(* update_zonemd and validate_zonemd over a dnspython zone.                *)
(*                                                                         *)
(* Byte strings are sequences of numbers 0..255.  A zone is the dict       *)
(* `keys` (owner names in dict order) with `nodes`, the list of rdatasets  *)
(* of each name in node order; an rdataset holds its members in list       *)
(* order, as dnspython 1.x does (rdataset.items is a list and rdata are    *)
(* mutable).  hashlib is outside the repository: Hash is a deterministic   *)
(* function of the bytes fed to it with the algorithm's output length and  *)
(* a non-zero first byte.                                                  *)
(***************************************************************************)
EXTENDS Integers, Sequences, FiniteSets, TLC

VARIABLES origin, keys, nodes, result, pre, trail

vars == <<origin, keys, nodes, result, pre, trail>>

-----------------------------------------------------------------------------
(* Program constants. *)

ZONEMD_RTYPE == 63

ZONEMD_DIGEST_SHA384 == 1

ZONEMD_DIGEST_SHA512 == 2

SOA == 6

RRSIG == 46

RDCLASS_IN == 1

SHA384_LEN == 48

SHA512_LEN == 64

(* Bounds of the model. *)

\* most members of the apex ZONEMD rdataset of a zone handed to validate
MaxZonemd == 3

\* most operations of one run of the workflow
MaxOps == 3

-----------------------------------------------------------------------------
(* Bytes. *)

Zeros(n) == [i \in 1..n |-> 0]

RECURSIVE Pack(_, _)
\* struct.pack big-endian, w bytes
Pack(n, w) == IF w = 0 THEN <<>> ELSE Append(Pack(n \div 256, w - 1), n % 256)

RECURSIVE FirstDiff(_, _, _, _)
\* the first index in lo..hi where a and b differ, 0 when there is none
FirstDiff(a, b, lo, hi) ==
    IF lo > hi THEN 0
    ELSE IF lo = hi THEN (IF a[lo] # b[lo] THEN lo ELSE 0)
    ELSE LET mid == (lo + hi) \div 2
             l == FirstDiff(a, b, lo, mid)
         IN  IF l # 0 THEN l ELSE FirstDiff(a, b, mid + 1, hi)

\* Python's order of bytes: the first differing byte decides, else the length
BytesLess(a, b) ==
    LET n == IF Len(a) < Len(b) THEN Len(a) ELSE Len(b)
        d == FirstDiff(a, b, 1, n)
    IN  IF d = 0 THEN Len(a) < Len(b) ELSE a[d] < b[d]

RECURSIVE Concat(_)
Concat(chunks) ==
    IF chunks = <<>> THEN <<>> ELSE Head(chunks) \o Concat(Tail(chunks))

RECURSIVE InsertBytes(_, _)
\* x placed before the first element greater than it
InsertBytes(sorted, x) ==
    IF sorted = <<>> THEN <<x>>
    ELSE IF BytesLess(x, Head(sorted)) THEN <<x>> \o sorted
    ELSE <<Head(sorted)>> \o InsertBytes(Tail(sorted), x)

RECURSIVE SortBytesFrom(_, _, _)
SortBytesFrom(seq, i, acc) ==
    IF i > Len(seq) THEN acc
    ELSE SortBytesFrom(seq, i + 1, InsertBytes(acc, seq[i]))

\* list.sort() of a list of bytes
SortBytes(seq) == SortBytesFrom(seq, 1, <<>>)

Range(seq) == {seq[i] : i \in DOMAIN seq}

-----------------------------------------------------------------------------
(* Owner names: a name is its labels, leftmost first, each label one byte. *)

Lower(b) == IF b >= 65 /\ b <= 90 THEN b + 32 ELSE b

\* name.canonicalize(): ASCII lower case
Canonicalize(name) == [i \in DOMAIN name |-> Lower(name[i])]

RECURSIVE NameToWire(_)
\* name.to_wire(): length-prefixed labels and the root label, uncompressed
NameToWire(name) ==
    IF name = <<>> THEN <<0>> ELSE <<1, Head(name)>> \o NameToWire(Tail(name))

Reverse(s) == [i \in DOMAIN s |-> s[Len(s) + 1 - i]]

\* dns.name ordering: labels compared from the rightmost, case-insensitively,
\* a name sorting before the names below it
NameLess(a, b) ==
    BytesLess(Reverse(Canonicalize(a)), Reverse(Canonicalize(b)))

\* min(zone.keys())
MinName(ks) == CHOOSE n \in Range(ks) : \A m \in Range(ks) : m = n \/ NameLess(n, m)

-----------------------------------------------------------------------------
(* Rdata and rdatasets.  An rdata is [serial, scheme, algorithm, digest,   *)
(* data]: ZONEMD uses the first four, SOA serial and data (its other       *)
(* fields), any other type data alone (its canonical wire form).  An       *)
(* rdataset is [rdtype, rdclass, covers, ttl, items].                      *)

ZONEMD(rdclass, serial, scheme, algorithm, digest) ==
    [serial |-> serial, scheme |-> scheme, algorithm |-> algorithm,
     digest |-> digest, data |-> <<>>]

\* ZONEMD.to_digestable
ZonemdToDigestable(rdata) ==
    Pack(rdata.serial, 4) \o <<rdata.scheme, rdata.algorithm>> \o rdata.digest

\* rdata.to_digestable() of the rdata of an rdataset of type rdtype
ToDigestable(rdtype, rdata) ==
    IF rdtype = ZONEMD_RTYPE THEN ZonemdToDigestable(rdata)
    ELSE IF rdtype = SOA THEN <<0, 0>> \o Pack(rdata.serial, 4) \o rdata.data
    ELSE rdata.data

EMPTY_DIGEST_BY_ALGORITHM ==
    [a \in {ZONEMD_DIGEST_SHA384, ZONEMD_DIGEST_SHA512} |->
        IF a = ZONEMD_DIGEST_SHA384 THEN Zeros(SHA384_LEN) ELSE Zeros(SHA512_LEN)]

\* index in the node of the rdataset of this type and covered type, 0 if none
RdatasetIndex(node, rdtype, covers) ==
    IF \E i \in DOMAIN node : node[i].rdtype = rdtype /\ node[i].covers = covers
    THEN CHOOSE i \in DOMAIN node :
            node[i].rdtype = rdtype /\ node[i].covers = covers
    ELSE 0

\* zone.get_rdataset(name, rdtype) found at all
HasRdataset(ns, name, rdtype) ==
    name \in DOMAIN ns /\ RdatasetIndex(ns[name], rdtype, 0) # 0

\* zone.get_rdataset / zone.find_rdataset where one exists
GetRdataset(ns, name, rdtype) == ns[name][RdatasetIndex(ns[name], rdtype, 0)]

RemoveAt(seq, i) == SubSeq(seq, 1, i - 1) \o SubSeq(seq, i + 1, Len(seq))

-----------------------------------------------------------------------------
(* Algorithm arguments: a name ("sha384") or a number (1).                 *)

ByName(s) == [name |-> s, code |-> 0]

ByCode(n) == [name |-> "", code |-> n]

IsSha384(arg) ==
    arg.name = "sha384" \/ (arg.name = "" /\ arg.code = ZONEMD_DIGEST_SHA384)

IsSha512(arg) ==
    arg.name = "sha512" \/ (arg.name = "" /\ arg.code = ZONEMD_DIGEST_SHA512)

-----------------------------------------------------------------------------
(* calculate_zonemd *)

\* the key rdataset_sorter gives an rdataset
rdataset_sorter(rdataset) ==
    LET wire_rdata == ToDigestable(rdataset.rdtype, rdataset.items[1])
    IN  <<rdataset.rdtype, Len(wire_rdata), wire_rdata>>

\* Python's order of two such keys
SorterKeyLess(k1, k2) ==
    \/ k1[1] < k2[1]
    \/ k1[1] = k2[1] /\ k1[2] < k2[2]
    \/ k1[1] = k2[1] /\ k1[2] = k2[2] /\ BytesLess(k1[3], k2[3])

RECURSIVE InsertRdataset(_, _)
InsertRdataset(sorted, x) ==
    IF sorted = <<>> THEN <<x>>
    ELSE IF SorterKeyLess(rdataset_sorter(x), rdataset_sorter(Head(sorted)))
         THEN <<x>> \o sorted
    ELSE <<Head(sorted)>> \o InsertRdataset(Tail(sorted), x)

RECURSIVE SortRdatasetsFrom(_, _, _)
SortRdatasetsFrom(seq, i, acc) ==
    IF i > Len(seq) THEN acc
    ELSE SortRdatasetsFrom(seq, i + 1, InsertRdataset(acc, seq[i]))

\* sorted(rdatasets, key=rdataset_sorter), stable as Python's sort is
SortRdatasets(seq) == SortRdatasetsFrom(seq, 1, <<>>)

RECURSIVE InsertName(_, _)
InsertName(sorted, x) ==
    IF sorted = <<>> THEN <<x>>
    ELSE IF NameLess(x, Head(sorted)) THEN <<x>> \o sorted
    ELSE <<Head(sorted)>> \o InsertName(Tail(sorted), x)

RECURSIVE SortNamesFrom(_, _, _)
SortNamesFrom(seq, i, acc) ==
    IF i > Len(seq) THEN acc
    ELSE SortNamesFrom(seq, i + 1, InsertName(acc, seq[i]))

\* sorted(zone.keys())
SortNames(ks) == SortNamesFrom(ks, 1, <<>>)

\* the apex test of calculate_zonemd
IsApex(name, zone_origin) == name = zone_origin

\* the rdatasets calculate_zonemd passes over at the apex
Skipped(name, zone_origin, rdataset) ==
    /\ IsApex(name, zone_origin)
    /\ \/ rdataset.rdtype = ZONEMD_RTYPE
       \/ rdataset.rdtype = RRSIG /\ rdataset.covers = ZONEMD_RTYPE

\* what one rdataset feeds to the hash: a chunk of bytes for each RR
RdatasetFeed(name, rdataset) ==
    LET wire_name == NameToWire(Canonicalize(name))
        wire_set == Pack(rdataset.rdtype, 2) \o Pack(rdataset.rdclass, 2)
                        \o Pack(rdataset.ttl, 4)
        wire_rdatas == SortBytes([i \in DOMAIN rdataset.items |->
                            ToDigestable(rdataset.rdtype, rdataset.items[i])])
    IN  [i \in DOMAIN wire_rdatas |->
            wire_name \o wire_set \o Pack(Len(wire_rdatas[i]), 2)
                \o wire_rdatas[i]]

RECURSIVE NodeFeed(_, _, _, _)
NodeFeed(name, zone_origin, sorted_rdatasets, i) ==
    IF i > Len(sorted_rdatasets) THEN <<>>
    ELSE (IF Skipped(name, zone_origin, sorted_rdatasets[i]) THEN <<>>
          ELSE RdatasetFeed(name, sorted_rdatasets[i]))
         \o NodeFeed(name, zone_origin, sorted_rdatasets, i + 1)

RECURSIVE ZoneFeed(_, _, _, _)
ZoneFeed(zone_origin, ns, sorted_names, i) ==
    IF i > Len(sorted_names) THEN <<>>
    ELSE NodeFeed(sorted_names[i], zone_origin,
                  SortRdatasets(ns[sorted_names[i]]), 1)
         \o ZoneFeed(zone_origin, ns, sorted_names, i + 1)

\* the chunks calculate_zonemd feeds to the hash, in order
Feed(zone_origin, ks, ns) == ZoneFeed(zone_origin, ns, SortNames(ks), 1)

\* what the byte at index i adds to the hash: every byte counts, and so does
\* its place
Weighted(bytes, i) == (bytes[i] + 1) * ((i % 250) + 1)

RECURSIVE Mix(_, _, _)
\* the sum of what the bytes lo..hi add
Mix(bytes, lo, hi) ==
    IF lo > hi THEN 0
    ELSE IF lo = hi THEN Weighted(bytes, lo)
    ELSE IF lo + 1 = hi THEN Weighted(bytes, lo) + Weighted(bytes, hi)
    ELSE IF lo + 2 = hi
    THEN Weighted(bytes, lo) + Weighted(bytes, lo + 1) + Weighted(bytes, hi)
    ELSE Mix(bytes, lo, (lo + hi) \div 2)
            + Mix(bytes, (lo + hi) \div 2 + 1, hi)

\* hashlib.sha384 / hashlib.sha512 of the bytes: the output length of the
\* algorithm, a first byte that is never zero
Hash(len, bytes) == <<1 + ((Mix(bytes, 1, Len(bytes)) + len) % 251)>> \o Zeros(len - 1)

\* HashingLen with sha384 selected for every known algorithm
HashingLenSha384Only(zonemd_algorithm) ==
    IF IsSha384(zonemd_algorithm) \/ IsSha512(zonemd_algorithm) THEN SHA384_LEN
    ELSE 0

\* the hash calculate_zonemd selects: its output length, 0 when it raises
\* ZoneDigestUnknownAlgorithm
HashingLen(zonemd_algorithm) ==
    IF IsSha384(zonemd_algorithm) THEN SHA384_LEN
    ELSE IF IsSha512(zonemd_algorithm) THEN SHA512_LEN
    ELSE 0

\* calculate_zonemd(zone, zonemd_algorithm)
calculate_zonemd(zone_origin, ks, ns, zonemd_algorithm) ==
    LET len == HashingLen(zonemd_algorithm)
        feed == Feed(zone_origin, ks, ns)
    IN  IF len = 0
        THEN [raised |-> "ZoneDigestUnknownAlgorithm", feed |-> <<>>,
              digest |-> <<>>]
        ELSE [raised |-> "", feed |-> feed, digest |-> Hash(len, Concat(feed))]

-----------------------------------------------------------------------------
(* The zone operations of dnspython the workflow uses. *)

\* zone.delete_rdataset(name, rdtype): the rdataset goes, and the node with
\* it when it held nothing else
DeleteRdataset(ks, ns, name, rdtype) ==
    IF ~HasRdataset(ns, name, rdtype) THEN [keys |-> ks, nodes |-> ns]
    ELSE LET left == RemoveAt(ns[name], RdatasetIndex(ns[name], rdtype, 0))
         IN  IF left = <<>>
             THEN [keys |-> SelectSeq(ks, LAMBDA n : n # name),
                   nodes |-> [n \in DOMAIN ns \ {name} |-> ns[n]]]
             ELSE [keys |-> ks, nodes |-> [ns EXCEPT ![name] = left]]

\* zone.replace_rdataset(name, replacement) at a name that has a node: the
\* rdataset of that type goes and the replacement is appended
ReplaceRdataset(ns, name, replacement) ==
    LET i == RdatasetIndex(ns[name], replacement.rdtype, replacement.covers)
        kept == IF i = 0 THEN ns[name] ELSE RemoveAt(ns[name], i)
    IN  [ns EXCEPT ![name] = Append(kept, replacement)]

\* the zone with the members of the ZONEMD rdataset at name replaced
SetZonemdItems(ns, name, items) ==
    [ns EXCEPT ![name][RdatasetIndex(ns[name], ZONEMD_RTYPE, 0)].items = items]

NoRdata == [serial |-> 0, scheme |-> 0, algorithm |-> 0, digest |-> <<>>,
            data |-> <<>>]

\* what a call leaves: the zone, the exception raised ("" when none) and
\* the value returned
Outcome(ks, ns, raised, ok, err, rdata) ==
    [keys |-> ks, nodes |-> ns, raised |-> raised, ok |-> ok, err |-> err,
     rdata |-> rdata]

-----------------------------------------------------------------------------
(* add_zonemd *)

\* the algorithm number add_zonemd selects, 0 when it raises
AddAlgorithm(zonemd_algorithm) ==
    IF IsSha384(zonemd_algorithm) THEN 1
    ELSE IF IsSha512(zonemd_algorithm) THEN 2
    ELSE 0

\* PlaceholderTtl with the argument ignored
PlaceholderTtlFromSoa(zonemd_ttl, soa_rdataset) == soa_rdataset.ttl

\* the TTL of the placeholder: the argument (<<>> for None), else the SOA's
PlaceholderTtl(zonemd_ttl, soa_rdataset) ==
    IF zonemd_ttl = <<>> THEN soa_rdataset.ttl ELSE zonemd_ttl[1]

\* the placeholder rdata add_zonemd builds
PlaceholderRdata(soa, algorithm) ==
    ZONEMD(RDCLASS_IN, soa.serial, 1, algorithm,
           EMPTY_DIGEST_BY_ALGORITHM[algorithm])

add_zonemd(ks, ns, zonemd_algorithm, zonemd_ttl) ==
    LET algorithm == AddAlgorithm(zonemd_algorithm)
        zone_name == MinName(ks)
        del == DeleteRdataset(ks, ns, zone_name, ZONEMD_RTYPE)
    IN  IF algorithm = 0
        THEN Outcome(ks, ns, "ZoneDigestUnknownAlgorithm", FALSE, "", NoRdata)
        ELSE IF ~HasRdataset(del.nodes, zone_name, SOA)
        THEN Outcome(del.keys, del.nodes, "AttributeError", FALSE, "", NoRdata)
        ELSE
        LET soa_rdataset == GetRdataset(del.nodes, zone_name, SOA)
            placeholder_rdata == PlaceholderRdata(soa_rdataset.items[1], algorithm)
            placeholder ==
                [rdtype |-> ZONEMD_RTYPE, rdclass |-> RDCLASS_IN, covers |-> 0,
                 ttl |-> PlaceholderTtl(zonemd_ttl, soa_rdataset),
                 items |-> <<placeholder_rdata>>]
        IN  Outcome(del.keys, ReplaceRdataset(del.nodes, zone_name, placeholder),
                    "", FALSE, "", placeholder_rdata)

-----------------------------------------------------------------------------
(* update_zonemd *)

update_zonemd(zone_origin, ks, ns, zonemd_algorithm) ==
    LET zone_name == MinName(ks)
        calc == calculate_zonemd(zone_origin, ks, ns, zonemd_algorithm)
    IN  IF calc.raised # ""
        THEN Outcome(ks, ns, calc.raised, FALSE, "", NoRdata)
        ELSE IF ~HasRdataset(ns, zone_name, ZONEMD_RTYPE)
        THEN Outcome(ks, ns, "KeyError", FALSE, "", NoRdata)
        ELSE
        LET items == GetRdataset(ns, zone_name, ZONEMD_RTYPE).items
            zonemd == [items[1] EXCEPT !.digest = calc.digest]
        IN  Outcome(ks, SetZonemdItems(ns, zone_name,
                                       [items EXCEPT ![1] = zonemd]),
                    "", FALSE, "", zonemd)

-----------------------------------------------------------------------------
(* validate_zonemd *)

ErrSerial == "SOA serial does not match ZONEMD serial"

ErrDuplicate == "Digest algorithm used more than once"

ErrDigest == "ZONEMD digest does not match calculated digest"

\* SerialMismatch testing only for a ZONEMD serial behind the SOA's
SerialMismatchOlder(soa, zonemd) == soa.serial > zonemd.serial

\* the test of the serial of one ZONEMD record against the SOA's
SerialMismatch(soa, zonemd) == soa.serial # zonemd.serial

\* the placeholder validate_zonemd puts in for the digest of a record
ValidatePlaceholder(zonemd) ==
    IF zonemd.algorithm \in DOMAIN EMPTY_DIGEST_BY_ALGORITHM
    THEN EMPTY_DIGEST_BY_ALGORITHM[zonemd.algorithm]
    ELSE Zeros(Len(zonemd.digest))

\* original_digests[algorithm] = digest
Put(original_digests, algorithm, digest) ==
    [a \in DOMAIN original_digests \cup {algorithm} |->
        IF a = algorithm THEN digest ELSE original_digests[a]]

RECURSIVE CollectDigests(_, _, _, _)
\* the first loop of validate_zonemd from member i on: how it ends ("" when
\* it runs to the end), the members as it leaves them, original_digests
CollectDigests(items, soa, i, original_digests) ==
    IF i > Len(items)
    THEN [err |-> "", items |-> items, original_digests |-> original_digests]
    ELSE IF SerialMismatch(soa, items[i])
    THEN [err |-> ErrSerial, items |-> items,
          original_digests |-> original_digests]
    ELSE IF items[i].scheme # 1
    THEN CollectDigests(items, soa, i + 1, original_digests)
    ELSE IF items[i].algorithm \in DOMAIN original_digests
    THEN [err |-> ErrDuplicate, items |-> items,
          original_digests |-> original_digests]
    ELSE CollectDigests(
            [items EXCEPT ![i].digest = ValidatePlaceholder(items[i])],
            soa, i + 1,
            Put(original_digests, items[i].algorithm, items[i].digest))

RECURSIVE RestoreDigests(_, _, _)
\* the second loop of validate_zonemd from member i on: the members as it
\* leaves them, and the KeyError of a member whose algorithm was not saved
RestoreDigests(items, i, original_digests) ==
    IF i > Len(items) THEN [raised |-> "", items |-> items]
    ELSE IF items[i].algorithm \notin DOMAIN original_digests
    THEN [raised |-> "KeyError", items |-> items]
    ELSE RestoreDigests(
            [items EXCEPT ![i].digest = original_digests[items[i].algorithm]],
            i + 1, original_digests)

validate_zonemd(zone_origin, ks, ns) ==
    LET zone_name == MinName(ks) IN
    IF ~HasRdataset(ns, zone_name, SOA)
    THEN Outcome(ks, ns, "AttributeError", FALSE, "", NoRdata)
    ELSE IF ~HasRdataset(ns, zone_name, ZONEMD_RTYPE)
    THEN Outcome(ks, ns, "KeyError", FALSE, "", NoRdata)
    ELSE
    LET soa == GetRdataset(ns, zone_name, SOA).items[1]
        items == GetRdataset(ns, zone_name, ZONEMD_RTYPE).items
        first == CollectDigests(items, soa, 1, <<>>)
        zeroed == SetZonemdItems(ns, zone_name, first.items)
    IN  IF first.err # ""
        THEN Outcome(ks, zeroed, "", FALSE, first.err, NoRdata)
        ELSE
        LET zonemd == items[Len(items)]
            calc == calculate_zonemd(zone_origin, ks, zeroed,
                                     ByCode(zonemd.algorithm))
            second == RestoreDigests(first.items, 1, first.original_digests)
            restored == SetZonemdItems(ns, zone_name, second.items)
        IN  IF calc.raised # ""
            THEN Outcome(ks, zeroed, calc.raised, FALSE, "", NoRdata)
            ELSE IF second.raised # ""
            THEN Outcome(ks, restored, second.raised, FALSE, "", NoRdata)
            ELSE IF calc.digest # first.original_digests[zonemd.algorithm]
            THEN Outcome(ks, restored, "", FALSE, ErrDigest, NoRdata)
            ELSE Outcome(ks, restored, "", TRUE, "", NoRdata)

-----------------------------------------------------------------------------
(* The zones the operations are run on. *)

Root == <<>>

\* "e."
ApexName == <<101>>

\* "W.e."
ChildName == <<87, 101>>

\* zone.origin: the apex, or the root as digestify.py's --origin default
\* makes it for a zone file without relativization
Origins == {ApexName, Root}

SoaSerials == {2024010100}

SoaTtls == {3600}

Generic(bytes) == [serial |-> 0, scheme |-> 0, algorithm |-> 0,
                   digest |-> <<>>, data |-> bytes]

Rdataset(rdtype, covers, ttl, items) ==
    [rdtype |-> rdtype, rdclass |-> RDCLASS_IN, covers |-> covers, ttl |-> ttl,
     items |-> items]

SoaRdataset(serial, ttl) ==
    Rdataset(SOA, 0, ttl,
             <<[serial |-> serial, scheme |-> 0, algorithm |-> 0,
                digest |-> <<>>, data |-> Zeros(16)]>>)

\* an A rdataset of one address
ARdataset == Rdataset(1, 0, 300, <<Generic(<<192, 0, 2, 1>>)>>)

\* an NS rdataset of two servers
NsRdataset == Rdataset(2, 0, 3600, <<Generic(<<1, 98, 0>>), Generic(<<1, 97, 0>>)>>)

\* a zone of an apex node and one name below it
Zone2(apexNode, childNode) == (ApexName :> apexNode) @@ (ChildName :> childNode)

NoResult ==
    [op |-> "init", alg |-> ByCode(0), ttl |-> <<>>, raised |-> "", ok |-> FALSE,
     err |-> "", rdata |-> NoRdata, feed |-> <<>>, digest |-> <<>>]

Snapshot(o, ks, ns) == [origin |-> o, keys |-> ks, nodes |-> ns]

\* the members of the apex ZONEMD rdataset of a zone, <<>> when it has none
ApexZonemd(ks, ns) ==
    IF HasRdataset(ns, MinName(ks), ZONEMD_RTYPE)
    THEN GetRdataset(ns, MinName(ks), ZONEMD_RTYPE).items
    ELSE <<>>

\* the output length the registry gives an algorithm number, 0 if unknown
OutputLen(algorithm) ==
    IF algorithm = ZONEMD_DIGEST_SHA384 THEN SHA384_LEN
    ELSE IF algorithm = ZONEMD_DIGEST_SHA512 THEN SHA512_LEN
    ELSE 0

-----------------------------------------------------------------------------
(* The workflow: add, update and validate on a zone read from a file. *)

AlgArgs == {ByName("sha384"), ByName("sha512"), ByCode(1), ByCode(2),
            ByName("md5")}

TtlArgs == {<<>>, <<300>>}

\* ZONEMD rdatasets a zone file may bring: none, one placeholder, two
PriorZonemd(serial) ==
    {<<>>,
     <<ZONEMD(RDCLASS_IN, serial, 1, 1, Zeros(SHA384_LEN))>>,
     <<ZONEMD(RDCLASS_IN, serial, 1, 2, Zeros(SHA512_LEN)),
       ZONEMD(RDCLASS_IN, serial, 1, 1, Zeros(SHA384_LEN))>>}

FlowApexNode(hasSoa, serial, ttl, prior) ==
    (IF prior = <<>> THEN <<>> ELSE <<Rdataset(ZONEMD_RTYPE, 0, 60, prior)>>)
    \o (IF hasSoa THEN <<SoaRdataset(serial, ttl)>> ELSE <<>>)
    \o <<NsRdataset>>

Init ==
    \E o \in Origins, hasSoa \in BOOLEAN, serial \in SoaSerials,
       ttl \in SoaTtls :
      \E prior \in PriorZonemd(serial) :
        /\ origin = o
        /\ keys = <<ChildName, ApexName>>
        /\ nodes = Zone2(FlowApexNode(hasSoa, serial, ttl, prior), <<ARdataset>>)
        /\ result = NoResult
        /\ pre = Snapshot(origin, keys, nodes)
        /\ trail = <<>>

\* one call ends: the zone as it leaves it, what it returned, the call
\* added to the trail
Finish(op, alg, ttl, out, feed, digest) ==
    /\ origin' = origin
    /\ keys' = out.keys
    /\ nodes' = out.nodes
    /\ result' = [op |-> op, alg |-> alg, ttl |-> ttl, raised |-> out.raised,
                  ok |-> out.ok, err |-> out.err, rdata |-> out.rdata,
                  feed |-> feed, digest |-> digest]
    /\ pre' = Snapshot(origin, keys, nodes)
    /\ trail' = Append(trail, [op |-> op, algorithm |-> AddAlgorithm(alg),
                               raised |-> out.raised])

Add(alg, ttl) ==
    /\ Len(trail) < MaxOps
    /\ Finish("add", alg, ttl, add_zonemd(keys, nodes, alg, ttl), <<>>, <<>>)

Update(alg) ==
    /\ Len(trail) < MaxOps
    /\ Finish("update", alg, <<>>, update_zonemd(origin, keys, nodes, alg),
              <<>>, <<>>)

Validate ==
    /\ Len(trail) < MaxOps
    /\ Finish("validate", ByCode(0), <<>>, validate_zonemd(origin, keys, nodes),
              <<>>, <<>>)

Next ==
    \/ \E alg \in AlgArgs, ttl \in TtlArgs : Add(alg, ttl)
    \/ \E alg \in AlgArgs : Update(alg)
    \/ Validate

Spec == Init /\ [][Next]_vars

-----------------------------------------------------------------------------
(* Claims about the workflow. *)

\* the trail ends with these calls, none of which raised
TrailEnds(ops) ==
    /\ Len(trail) >= Len(ops)
    /\ \A i \in DOMAIN ops :
          LET t == trail[Len(trail) - Len(ops) + i]
          IN  t.op = ops[i] /\ (t.op # "validate" => t.raised = "")

\* the algorithm numbers of the last n calls of the trail
TrailAlgorithms(n) ==
    {trail[i].algorithm : i \in (Len(trail) - n + 1)..Len(trail)}

\* C3: add(zone, alg), update(zone, alg) and validate(zone) in a row on a zone
\* with an SOA at its apex: validate returns (True, ""), and the digest update
\* stored has the registry's output length for alg
C3_AddUpdateValidate ==
    /\ (TrailEnds(<<"add", "update">>) /\ Cardinality(TrailAlgorithms(2)) = 1)
         => /\ Len(ApexZonemd(keys, nodes)) = 1
            /\ \A a \in TrailAlgorithms(2) :
                  Len(ApexZonemd(keys, nodes)[1].digest) = OutputLen(a)
            /\ ApexZonemd(keys, nodes)[1].digest
                  # Zeros(Len(ApexZonemd(keys, nodes)[1].digest))
    /\ (TrailEnds(<<"add", "update", "validate">>)
            /\ Cardinality(TrailAlgorithms(3) \ {0}) = 1
            /\ trail[Len(trail) - 1].algorithm = trail[Len(trail) - 2].algorithm)
         => /\ result.raised = "" /\ result.ok /\ result.err = ""
            /\ \A a \in TrailAlgorithms(3) \ {0} :
                  Len(ApexZonemd(keys, nodes)[1].digest) = OutputLen(a)

C3_Witness ==
    /\ TrailEnds(<<"add", "update", "validate">>)
    /\ trail[Len(trail) - 1].algorithm = 2
    /\ trail[Len(trail) - 2].algorithm = 2
    /\ result.ok
    /\ origin # MinName(keys)
    /\ Len(ApexZonemd(keys, nodes)[1].digest) = SHA512_LEN

\* C6: after add(zone, alg, ttl) succeeds the apex has one ZONEMD rdataset
\* with one member, the record returned: scheme 1, algorithm alg, the SOA's
\* serial, the ttl argument or else the SOA's TTL, an all-zero digest of the
\* registry's output length
C6_AddPostcondition ==
    (result.op = "add" /\ result.raised = "") =>
        LET apex == nodes[MinName(keys)]
            zs == {i \in DOMAIN apex : apex[i].rdtype = ZONEMD_RTYPE}
            soa_rdataset == GetRdataset(pre.nodes, MinName(pre.keys), SOA)
        IN  /\ Cardinality(zs) = 1
            /\ \A i \in zs :
                  /\ apex[i].items = <<result.rdata>>
                  /\ apex[i].ttl = IF result.ttl = <<>> THEN soa_rdataset.ttl
                                   ELSE result.ttl[1]
            /\ result.rdata.scheme = 1
            /\ result.rdata.algorithm = (IF IsSha384(result.alg) THEN 1 ELSE 2)
            /\ result.rdata.serial = soa_rdataset.items[1].serial
            /\ result.rdata.digest = Zeros(OutputLen(result.rdata.algorithm))
            /\ OutputLen(result.rdata.algorithm) > 0

C6_Witness ==
    /\ result.op = "add" /\ result.raised = ""
    /\ Len(ApexZonemd(pre.keys, pre.nodes)) = 2
    /\ result.ttl # <<>>
    /\ result.rdata.algorithm = 2
    /\ ApexZonemd(keys, nodes) = <<result.rdata>>

\* C7: every ZONEMD record at the apex has a digest of the registry's output
\* length for the record's own algorithm
C7_DigestLength ==
    \A i \in DOMAIN ApexZonemd(keys, nodes) :
        Len(ApexZonemd(keys, nodes)[i].digest)
            = OutputLen(ApexZonemd(keys, nodes)[i].algorithm)

-----------------------------------------------------------------------------
(* Validation alone, of zones whose apex ZONEMD rdataset holds up to       *)
(* MaxZonemd records of either scheme, known and unknown algorithms,       *)
(* matching and drifted serials, right and tampered digests.               *)

\* a record to build: its scheme and algorithm, whether its serial is the
\* SOA's, whether its digest is the zone's
ZonemdKinds ==
    {k \in [serialOk : BOOLEAN, scheme : {1, 2}, algorithm : {1, 2, 3},
            good : BOOLEAN] :
        k.good => (k.scheme = 1 /\ k.algorithm \in {1, 2})}

ZonemdKindSeqs ==
    UNION {{q \in [1..n -> ZonemdKinds] :
                \A i, j \in 1..n : q[i] = q[j] => i = j} : n \in 0..MaxZonemd}

\* the digest of a record that is not validated: some bytes
OtherDigest(algorithm) ==
    IF OutputLen(algorithm) = 0 THEN <<7, 7>>
    ELSE [i \in 1..OutputLen(algorithm) |-> 170]

\* the members with every scheme-1 digest replaced by its placeholder
Placeholdered(items) ==
    [i \in DOMAIN items |->
        IF items[i].scheme = 1
        THEN [items[i] EXCEPT !.digest = ValidatePlaceholder(items[i])]
        ELSE items[i]]

ValidateApexNode(serial, ttl, items) ==
    <<SoaRdataset(serial, ttl)>>
    \o (IF items = <<>> THEN <<>> ELSE <<Rdataset(ZONEMD_RTYPE, 0, ttl, items)>>)

\* the digest of algorithm a that validates in the zone: the one calculated
\* with every scheme-1 digest at the apex a placeholder
RightDigest(o, ks, ns, a) ==
    calculate_zonemd(o, ks,
        IF HasRdataset(ns, MinName(ks), ZONEMD_RTYPE)
        THEN SetZonemdItems(ns, MinName(ks), Placeholdered(ApexZonemd(ks, ns)))
        ELSE ns,
        ByCode(a)).digest

\* a digest with one byte changed
Tampered(digest) == [digest EXCEPT ![1] = (digest[1] + 1) % 256]

\* the records of the kinds q, before their digests are known
Drafts(q, serial) ==
    [i \in DOMAIN q |->
        ZONEMD(RDCLASS_IN, IF q[i].serialOk THEN serial ELSE serial + 1,
               q[i].scheme, q[i].algorithm, OtherDigest(q[i].algorithm))]

\* the zone of the kinds q: right digests where q says so, tampered ones in
\* the other records that are validated
ValidateZone(o, ks, q, serial, ttl) ==
    LET drafts == Drafts(q, serial)
        draft == Zone2(ValidateApexNode(serial, ttl, drafts), <<ARdataset>>)
        right1 == RightDigest(o, ks, draft, 1)
        right2 == RightDigest(o, ks, draft, 2)
        items == [i \in DOMAIN q |->
                    IF q[i].scheme = 1 /\ OutputLen(q[i].algorithm) # 0
                    THEN [drafts[i] EXCEPT !.digest =
                            IF q[i].good
                            THEN (IF q[i].algorithm = 1 THEN right1 ELSE right2)
                            ELSE Tampered(IF q[i].algorithm = 1 THEN right1
                                          ELSE right2)]
                    ELSE drafts[i]]
    IN  Zone2(ValidateApexNode(serial, ttl, items), <<ARdataset>>)

\* validation is run with the zone's origin given: zone.origin is the apex
ValidateOrigins == {ApexName}

InitValidate ==
    \E o \in ValidateOrigins, q \in ZonemdKindSeqs, serial \in SoaSerials,
       ttl \in SoaTtls :
        /\ origin = o
        /\ keys = <<ChildName, ApexName>>
        /\ nodes = ValidateZone(o, keys, q, serial, ttl)
        /\ result = NoResult
        /\ pre = Snapshot(origin, keys, nodes)
        /\ trail = <<>>

\* validate_zonemd run on the zone as read
ValidateRead ==
    /\ trail = <<>>
    /\ Finish("validate", ByCode(0), <<>>, validate_zonemd(origin, keys, nodes),
              <<>>, <<>>)

NextValidate == ValidateRead

SpecValidate == InitValidate /\ [][NextValidate]_vars

-----------------------------------------------------------------------------
(* Claims about validation. *)

\* the apex ZONEMD records validate_zonemd was handed
GivenZonemd == ApexZonemd(pre.keys, pre.nodes)

\* the serial of the SOA validate_zonemd was handed
GivenSerial == GetRdataset(pre.nodes, MinName(pre.keys), SOA).items[1].serial

Validated == result.op = "validate"

\* the records of scheme 1 validate_zonemd was handed
Scheme1 == {i \in DOMAIN GivenZonemd : GivenZonemd[i].scheme = 1}

\* the digest of record i is the one calculated for its algorithm
RightAt(i) ==
    GivenZonemd[i].digest
        = RightDigest(pre.origin, pre.keys, pre.nodes, GivenZonemd[i].algorithm)

\* every scheme-1 record is one that validates: the SOA's serial, an
\* algorithm of its own that is known, the right digest
Scheme1AllValid ==
    /\ Scheme1 # {}
    /\ \A i \in Scheme1 :
          /\ GivenZonemd[i].serial = GivenSerial
          /\ OutputLen(GivenZonemd[i].algorithm) # 0
          /\ RightAt(i)
          /\ \A j \in Scheme1 :
                GivenZonemd[j].algorithm = GivenZonemd[i].algorithm => j = i

\* C1: validate leaves the zone as it found it, on every return path
C1_ValidateLeavesZone ==
    (Validated /\ result.raised = "") => (keys = pre.keys /\ nodes = pre.nodes)

\* C2: validate returns True only if every scheme-1 record holds the digest
\* calculated for its algorithm; with one digest of an otherwise valid zone
\* tampered with it returns False for a digest mismatch
C2_ValidateChecksEvery ==
    Validated =>
        /\ (result.raised = "" /\ result.ok) => \A i \in Scheme1 : RightAt(i)
        /\ \A t \in Scheme1 :
              ( /\ ~RightAt(t)
                /\ \A i \in DOMAIN GivenZonemd :
                      /\ GivenZonemd[i].scheme = 1
                      /\ GivenZonemd[i].serial = GivenSerial
                      /\ OutputLen(GivenZonemd[i].algorithm) # 0
                      /\ i # t => RightAt(i)
                      /\ \A j \in Scheme1 :
                            GivenZonemd[j].algorithm = GivenZonemd[i].algorithm
                                => j = i )
              => (result.raised = "" /\ ~result.ok /\ result.err = ErrDigest)

\* C4: a record of another scheme is skipped and is no error: with it in a
\* zone whose scheme-1 records all validate, validate returns (True, "")
C4_OtherSchemeSkipped ==
    ( /\ Validated
      /\ Scheme1AllValid
      /\ Scheme1 # DOMAIN GivenZonemd )
    => (result.raised = "" /\ result.ok /\ result.err = "")

\* C5: with no scheme-1 ZONEMD record at the apex validate returns
\* (False, "no ZONEMD record found") and raises nothing
C5_NoRecordFound ==
    (Validated /\ Scheme1 = {})
    => ( /\ result.raised = ""
         /\ ~result.ok
         /\ result.err = "no ZONEMD record found" )

\* a scheme-1 record whose serial is not the SOA's
Drifted == {i \in Scheme1 : GivenZonemd[i].serial # GivenSerial}

\* two scheme-1 records of one algorithm stand before the first record, of
\* any scheme, whose serial is not the SOA's
DuplicateBeforeDrift ==
    \E i, j \in Scheme1 :
        /\ i < j
        /\ GivenZonemd[i].algorithm = GivenZonemd[j].algorithm
        /\ \A k \in 1..j : GivenZonemd[k].serial = GivenSerial

\* C9 as claimed: a scheme-1 record whose serial is not the SOA's makes
\* validate return False for the serial mismatch
C9_SerialDriftAsClaimed ==
    (Validated /\ Drifted # {})
    => (result.raised = "" /\ ~result.ok /\ result.err = ErrSerial)

\* C9 amended: a scheme-1 record whose serial is not the SOA's makes validate
\* return False, whatever the digests: for the serial mismatch, or for the
\* duplicate algorithm when two scheme-1 records of one algorithm stand
\* before the first record whose serial is not the SOA's
C9_SerialDrift ==
    (Validated /\ Drifted # {})
    => /\ result.raised = ""
       /\ ~result.ok
       /\ result.err = IF DuplicateBeforeDrift THEN ErrDuplicate ELSE ErrSerial

C9_Witness ==
    /\ Validated
    /\ result.err = ErrSerial
    /\ \E i \in Drifted : i > 1 /\ GivenZonemd[i].digest[1] # 0
    /\ \E i \in Scheme1 \ Drifted : RightAt(i)

-----------------------------------------------------------------------------
(* calculate_zonemd alone, on one zone whose dict, nodes and rdatasets     *)
(* come in any order: a signed zone with ZONEMD records and signatures     *)
(* over them at the apex and at a name below it.                           *)

\* a signature: the type covered, then the rest of the RRSIG
Rrsig(covers, rest) == Generic(<<0, covers>> \o rest)

ComputeApexNode(serial, ttl) ==
    <<SoaRdataset(serial, ttl),
      Rdataset(RRSIG, SOA, ttl, <<Rrsig(SOA, <<5>>), Rrsig(SOA, <<13, 1, 1>>)>>),
      Rdataset(RRSIG, 2, ttl, <<Rrsig(2, <<8, 1>>)>>),
      Rdataset(ZONEMD_RTYPE, 0, ttl,
               <<ZONEMD(RDCLASS_IN, serial, 1, 1, Zeros(SHA384_LEN))>>),
      Rdataset(RRSIG, ZONEMD_RTYPE, ttl, <<Rrsig(ZONEMD_RTYPE, <<9>>)>>)>>

ComputeChildNode(serial, ttl) ==
    <<Rdataset(ZONEMD_RTYPE, 0, ttl,
               <<ZONEMD(RDCLASS_IN, serial, 1, 2, Zeros(SHA512_LEN))>>),
      Rdataset(RRSIG, ZONEMD_RTYPE, ttl, <<Rrsig(ZONEMD_RTYPE, <<9>>)>>)>>

InitCompute ==
    \E o \in Origins, serial \in SoaSerials, ttl \in SoaTtls :
        /\ origin = o
        /\ keys = <<ApexName, ChildName>>
        /\ nodes = Zone2(ComputeApexNode(serial, ttl),
                         ComputeChildNode(serial, ttl))
        /\ result = NoResult
        /\ pre = Snapshot(origin, keys, nodes)
        /\ trail = <<>>

Swap(seq, i) == [seq EXCEPT ![i] = seq[i + 1], ![i + 1] = seq[i]]

\* the dict holds the same names in another order
SwapKeys(i) ==
    /\ i \in 1..(Len(keys) - 1)
    /\ keys' = Swap(keys, i)
    /\ UNCHANGED <<origin, nodes, result, pre, trail>>

\* a node holds the same rdatasets in another order
SwapRdatasets(name, i) ==
    /\ name \in DOMAIN nodes
    /\ i \in 1..(Len(nodes[name]) - 1)
    /\ nodes' = [nodes EXCEPT ![name] = Swap(nodes[name], i)]
    /\ UNCHANGED <<origin, keys, result, pre, trail>>

\* an rdataset holds the same members in another order
SwapMembers(name, i, j) ==
    /\ name \in DOMAIN nodes
    /\ i \in DOMAIN nodes[name]
    /\ j \in 1..(Len(nodes[name][i].items) - 1)
    /\ nodes' = [nodes EXCEPT ![name][i].items = Swap(nodes[name][i].items, j)]
    /\ UNCHANGED <<origin, keys, result, pre, trail>>

Calculate(alg) ==
    LET calc == calculate_zonemd(origin, keys, nodes, alg)
    IN  /\ origin' = origin
        /\ keys' = keys
        /\ nodes' = nodes
        /\ result' = [op |-> "calculate", alg |-> alg, ttl |-> <<>>,
                      raised |-> calc.raised, ok |-> FALSE, err |-> "",
                      rdata |-> NoRdata, feed |-> calc.feed,
                      digest |-> calc.digest]
        /\ UNCHANGED <<pre, trail>>

ComputeArgs == {ByName("sha384"), ByCode(2), ByName("md5")}

NextCompute ==
    \/ \E i \in 1..2 : SwapKeys(i)
    \/ \E name \in {ApexName, ChildName}, i \in 1..4 : SwapRdatasets(name, i)
    \/ \E name \in {ApexName, ChildName}, i \in 1..5, j \in 1..2 :
            SwapMembers(name, i, j)
    \/ \E alg \in ComputeArgs : Calculate(alg)

SpecCompute == InitCompute /\ [][NextCompute]_vars

\* C8: the bytes fed to the hash and the digest are those of the zone's
\* records, whatever order the names, the rdatasets of a name and the
\* members of an rdataset come in: calculated again after any reordering
\* they are the same
C8_OrderIndependent ==
    (result.op = "calculate" /\ result.raised = "") =>
        /\ calculate_zonemd(origin, keys, nodes, result.alg).feed = result.feed
        /\ calculate_zonemd(origin, keys, nodes, result.alg).digest
                = result.digest

\* what the records of the rdatasets at name are fed as, those of the ZONEMD
\* rdataset and of the signature over it left out at the name apex
FedAt(ns, name, apex) ==
    UNION {Range(RdatasetFeed(name, ns[name][i])) :
            i \in {k \in DOMAIN ns[name] :
                    ~(/\ name = apex
                      /\ \/ ns[name][k].rdtype = ZONEMD_RTYPE
                         \/ /\ ns[name][k].rdtype = RRSIG
                            /\ ns[name][k].covers = ZONEMD_RTYPE)}}

\* C10: the records fed to the hash are all the records of the zone but the
\* ZONEMD rdataset and the signature over it at the name add_zonemd,
\* update_zonemd and validate_zonemd take for the apex
C10_ApexExclusion ==
    (result.op = "calculate" /\ result.raised = "") =>
        /\ Range(result.feed)
             = UNION {FedAt(nodes, name, MinName(keys)) :
                        name \in DOMAIN nodes}
        /\ \A i, j \in DOMAIN result.feed :
                result.feed[i] = result.feed[j] => i = j

====
